---- MODULE Spec2Model ----
(***************************************************************************)
(* Widget layout and dirty-rectangle engine of wargame.gui:                *)
(*   nodes.py      GuiNode, GuiLabel, GuiImage, GuiContainer,              *)
(*                 VerticalContainer, HorizontalContainer                  *)
(*   containers.py BorderWidget                                            *)
(* A pixel surface is modelled by its size <<w, h>>; None is <<>>.         *)
(* A pygame.Rect is a record [x, y, w, h].  A raised Python exception is   *)
(* the name of its class; "none" means the call returned.                  *)
(***************************************************************************)
EXTENDS Integers, Sequences, FiniteSets, TLC

VARIABLES
    tree,       \* per node: the constructor arguments (kind, nodes, border, align, ...)
    image,      \* per node: self.image
    rect,       \* per node: self.rect
    visible,    \* per node: self.visible
    offset,     \* per node: self.offset, read by BorderWidget.update_widget_image
    blitpos,    \* per node: where the node's image was last blitted into its parent
    widget,     \* the BorderWidget: constructed?, container, image, rect, painted areas
    last        \* the call made last: operation, arguments, result, exception

vars == <<tree, image, rect, visible, offset, blitpos, widget, last>>

----------------------------------------------------------------------------
(* Bounds of the model *)

NumNodes == 4       \* objects 1..NumNodes; a window holds up to NumNodes - 1 leaves
MaxStack == 2       \* a stack of images holds 0..MaxStack of them
MaxDim == 2         \* leaf images are 1..MaxDim wide and high (the large one, one more)
MaxBorder == 1      \* borders 0..MaxBorder, of containers, labels and the frame
MaxSlack == 1       \* build_image is offered up to MaxSlack more than the minimum size
MaxOffset == 1      \* node offsets are (0, 0) or (x, y) with x + y = MaxOffset
MaxDirty == 1       \* dirty rectangles start at (x, y) with x + y = MaxDirty
MaxPos == 1         \* a window placed explicitly is placed at (MaxPos, MaxPos)

(* Program constants *)

FallbackSize == 128         \* nodes.py:41
DefaultBorder == 4          \* nodes.py:104
ScreenWidth == 800          \* the display Resources.get_centre centres on
ScreenHeight == 600

Node == 1..NumNodes
Root == 1
NoImage == <<>>
Surface(w, h) == <<w, h>>
get_width(img) == img[1]
get_height(img) == img[2]
Rect(x, y, w, h) == [x |-> x, y |-> y, w |-> w, h |-> h]

ContainerKinds == {"VerticalContainer", "HorizontalContainer"}
LeafKinds == {"GuiNode", "GuiImage", "GuiLabel"}
HAligns == {"LEFT", "CENTRE", "RIGHT"}
VAligns == {"TOP", "CENTRE", "BOTTOM"}

IsContainer(t, n) == t[n].kind \in ContainerKinds

Max2(a, b) == IF a >= b THEN a ELSE b

\* sum(xs) of Python
RECURSIVE sum(_)
sum(xs) == IF xs = <<>> THEN 0 ELSE Head(xs) + sum(Tail(xs))

\* max(xs) of Python on a non-empty list
RECURSIVE max(_)
max(xs) == IF Len(xs) = 1 THEN xs[1] ELSE Max2(Head(xs), max(Tail(xs)))

\* Align.horizontal / Align.vertical: the projection of an alignment on an axis
Align_horizontal(a) == IF a \in HAligns THEN a ELSE "CENTRE"
Align_vertical(a) == IF a \in VAligns THEN a ELSE "CENTRE"

----------------------------------------------------------------------------
(* minimum_size: [err, w, h, fill] *)

Size(w, h, f) == [err |-> "none", w |-> w, h |-> h, fill |-> f]
SizeError(e) == [err |-> e, w |-> 0, h |-> 0, fill |-> FALSE]

FirstError(sizes) ==
    LET bad == {k \in 1..Len(sizes) : sizes[k].err # "none"}
    IN  IF bad = {} THEN "none"
        ELSE sizes[CHOOSE k \in bad : \A j \in bad : k <= j].err

GuiNode_minimum_size(t, img, n) ==
    IF img[n] = NoImage THEN SizeError("AttributeError")
    ELSE Size(get_width(img[n]), get_height(img[n]), t[n].fill)

Gaps(t, n) == Max2(Len(t[n].nodes) - 1, 0) * (t[n].border * 2)

\* the gaps between the children counted at one border each
Mutant_VerticalContainer_minimum_size(t, n, sizes) ==
    IF FirstError(sizes) # "none" THEN SizeError(FirstError(sizes))
    ELSE IF sizes = <<>> THEN SizeError("ValueError")
    ELSE LET width == max([k \in 1..Len(sizes) |-> sizes[k].w])
             height == sum([k \in 1..Len(sizes) |-> sizes[k].h])
         IN  Size(width + t[n].border * 2,
                  height + Max2(Len(t[n].nodes) - 1, 0) * t[n].border + t[n].border * 2,
                  t[n].fill)

VerticalContainer_minimum_size(t, n, sizes) ==
    IF FirstError(sizes) # "none" THEN SizeError(FirstError(sizes))
    ELSE IF sizes = <<>> THEN SizeError("ValueError")
    ELSE LET width == max([k \in 1..Len(sizes) |-> sizes[k].w])
             height == sum([k \in 1..Len(sizes) |-> sizes[k].h])
         IN  Size(width + t[n].border * 2,
                  height + Gaps(t, n) + t[n].border * 2,
                  t[n].fill)

HorizontalContainer_minimum_size(t, n, sizes) ==
    IF FirstError(sizes) # "none" THEN SizeError(FirstError(sizes))
    ELSE IF sizes = <<>> THEN SizeError("ValueError")
    ELSE LET width == sum([k \in 1..Len(sizes) |-> sizes[k].w])
             height == max([k \in 1..Len(sizes) |-> sizes[k].h])
         IN  Size(width + Gaps(t, n) + t[n].border * 2,
                  height + t[n].border * 2,
                  t[n].fill)

RECURSIVE minimum_size(_, _, _)
minimum_size(t, img, n) ==
    IF ~IsContainer(t, n) THEN GuiNode_minimum_size(t, img, n)
    ELSE LET sizes == [k \in 1..Len(t[n].nodes) |-> minimum_size(t, img, t[n].nodes[k])]
         IN  IF t[n].kind = "VerticalContainer"
             THEN VerticalContainer_minimum_size(t, n, sizes)
             ELSE HorizontalContainer_minimum_size(t, n, sizes)

----------------------------------------------------------------------------
(* build_image.  The objects' mutable fields travel as one record          *)
(* st = [image, rect, visible, blitpos]; a call returns [st, err, img]:    *)
(* the fields as the call leaves them (also when it raises part-way), the  *)
(* exception raised, and the surface returned.                             *)

Returned(st, img) == [st |-> st, err |-> "none", img |-> img]
Raised(st, e) == [st |-> st, err |-> e, img |-> NoImage]

\* Resources.colour_surface(width, height, colour)
colour_surface(width, height) == Surface(width, height)

GuiNode_build_image(st, n) ==
    IF st.image[n] = NoImage
    THEN Returned([st EXCEPT !.image[n] = colour_surface(FallbackSize, FallbackSize),
                             !.rect[n] = Rect(0, 0, FallbackSize, FallbackSize),
                             !.visible[n] = TRUE], NoImage)
    ELSE Returned(st, NoImage)

GuiLabel_build_image(st, n) == Returned(st, NoImage)

\* the child's own alignment ignored
Mutant_widget_align(t, n, i) == t[n].align_children

\* the child's alignment unless NONE, else the container's align_children
widget_align(t, n, i) ==
    IF t[i].align # "NONE" THEN t[i].align ELSE t[n].align_children

\* VerticalContainer.build_simple_image: x position of a child of minimum width w
Vertical_widget_xpos(t, n, i, w, max_width) ==
    LET direction == Align_horizontal(widget_align(t, n, i))
    IN  IF w < max_width
        THEN IF direction = "RIGHT" THEN t[n].border + (max_width - w)
             ELSE IF direction = "CENTRE" THEN t[n].border + ((max_width - w) \div 2)
             ELSE t[n].border
        ELSE t[n].border

\* HorizontalContainer.build_simple_image: y position of a child of minimum height h
Horizontal_widget_ypos(t, n, i, h, max_height) ==
    LET direction == Align_vertical(widget_align(t, n, i))
    IN  IF h < max_height
        THEN IF direction = "BOTTOM" THEN t[n].border + (max_height - h)
             ELSE IF direction = "CENTRE" THEN t[n].border + ((max_height - h) \div 2)
             ELSE t[n].border
        ELSE t[n].border

\* GuiContainer.build_image after the builder returned r
GuiContainer_finish(n, r) ==
    IF r.err # "none" THEN Raised(r.st, r.err)
    ELSE IF r.img = NoImage THEN Raised(r.st, "AttributeError")
    ELSE Returned([r.st EXCEPT !.rect[n] = Rect(0, 0, get_width(r.img), get_height(r.img)),
                               !.image[n] = r.img], r.img)

\* VerticalContainer.build_full_image once the children's heights are summed
Vertical_full_choice(t, n, min_height, height) ==
    IF min_height < height
    THEN IF t[n].align_children = "TOP" THEN "top" ELSE "nothing"
    ELSE "simple"

RECURSIVE build_image(_, _, _, _, _)
RECURSIVE VerticalContainer_build_simple_image(_, _, _)
RECURSIVE VerticalContainer_nodes_loop(_, _, _, _, _, _)
RECURSIVE VerticalContainer_build_full_image(_, _, _, _, _)
RECURSIVE HorizontalContainer_build_simple_image(_, _, _)
RECURSIVE HorizontalContainer_nodes_loop(_, _, _, _, _, _)

\* the body of "for i in self.nodes" from child k on, the next child going at ypos
VerticalContainer_nodes_loop(t, st, n, k, ypos, size) ==
    IF k > Len(t[n].nodes) THEN Returned(st, colour_surface(size.w, size.h))
    ELSE LET i == t[n].nodes[k]
             mi == minimum_size(t, st.image, i)
             max_width == size.w - (2 * t[n].border)
             built == IF st.image[i] = NoImage THEN build_image(t, st, i, 0, 0)
                      ELSE Returned(st, NoImage)
         IN  IF mi.err # "none" THEN Raised(st, mi.err)
             ELSE IF built.err # "none" THEN Raised(built.st, built.err)
             ELSE IF built.st.image[i] = NoImage THEN Raised(built.st, "TypeError")
             ELSE VerticalContainer_nodes_loop(t,
                    [built.st EXCEPT !.blitpos[i] =
                        <<Vertical_widget_xpos(t, n, i, mi.w, max_width), ypos>>],
                    n, k + 1,
                    ypos + get_height(built.st.image[i]) + (t[n].border * 2),
                    size)

VerticalContainer_build_simple_image(t, st, n) ==
    LET size == minimum_size(t, st.image, n)
    IN  IF size.err # "none" THEN Raised(st, size.err)
        ELSE VerticalContainer_nodes_loop(t, st, n, 1, t[n].border, size)

VerticalContainer_build_full_image(t, st, n, width, height) ==
    LET size == minimum_size(t, st.image, n)
        sizes == [k \in 1..Len(t[n].nodes) |-> minimum_size(t, st.image, t[n].nodes[k])]
        min_height == sum([k \in 1..Len(sizes) |-> sizes[k].h])
        w == IF width = -1 THEN size.w ELSE width
        choice == Vertical_full_choice(t, n, min_height, height)
        simple == VerticalContainer_build_simple_image(t, st, n)
    IN  IF width = -1 /\ size.err # "none" THEN Raised(st, size.err)
        ELSE IF FirstError(sizes) # "none" THEN Raised(st, FirstError(sizes))
        ELSE IF choice = "nothing" THEN Returned(st, NoImage)
        ELSE IF simple.err # "none" THEN simple
        ELSE IF choice = "top" THEN Returned(simple.st, colour_surface(w, height))
        ELSE simple

HorizontalContainer_nodes_loop(t, st, n, k, xpos, size) ==
    IF k > Len(t[n].nodes) THEN Returned(st, Surface(size.w, size.h))
    ELSE LET i == t[n].nodes[k]
             mi == minimum_size(t, st.image, i)
             max_height == size.h - (2 * t[n].border)
             built == IF st.image[i] = NoImage THEN build_image(t, st, i, -1, size.h)
                      ELSE Returned(st, NoImage)
         IN  IF mi.err # "none" THEN Raised(st, mi.err)
             ELSE IF built.err # "none" THEN Raised(built.st, built.err)
             ELSE IF built.st.image[i] = NoImage THEN Raised(built.st, "TypeError")
             ELSE HorizontalContainer_nodes_loop(t,
                    [built.st EXCEPT !.blitpos[i] =
                        <<xpos, Horizontal_widget_ypos(t, n, i, mi.h, max_height)>>],
                    n, k + 1,
                    xpos + get_width(built.st.image[i]) + (t[n].border * 2),
                    size)

HorizontalContainer_build_simple_image(t, st, n) ==
    LET size == minimum_size(t, st.image, n)
    IN  IF size.err # "none" THEN Raised(st, size.err)
        ELSE HorizontalContainer_nodes_loop(t, st, n, 1, t[n].border, size)

\* node.build_image(width, height), dispatched on the node's class
build_image(t, st, n, width, height) ==
    IF t[n].kind = "GuiLabel" THEN GuiLabel_build_image(st, n)
    ELSE IF t[n].kind \in {"GuiNode", "GuiImage"} THEN GuiNode_build_image(st, n)
    ELSE IF width = 0
    THEN GuiContainer_finish(n,
            IF t[n].kind = "VerticalContainer"
            THEN VerticalContainer_build_simple_image(t, st, n)
            ELSE HorizontalContainer_build_simple_image(t, st, n))
    ELSE GuiContainer_finish(n,
            IF t[n].kind = "VerticalContainer"
            THEN VerticalContainer_build_full_image(t, st, n, width, height)
            ELSE Raised(st, "AttributeError"))

----------------------------------------------------------------------------
(* handle.  A message is modelled by the set msg of leaves whose handle    *)
(* consumes it; a call returns [ret, calls], calls the nodes whose handle  *)
(* was invoked, in order.                                                  *)

RECURSIVE GuiContainer_handle(_, _, _, _)
RECURSIVE GuiContainer_handle_loop(_, _, _, _, _)

\* i.handle(message) of one child: its result and the calls made so far
child_handle(t, i, msg, calls) ==
    IF IsContainer(t, i) THEN GuiContainer_handle(t, i, msg, Append(calls, i))
    ELSE [ret |-> (i \in msg), calls |-> Append(calls, i)]

\* the loop going on after a child consumed the message
RECURSIVE Mutant_GuiContainer_handle_loop(_, _, _, _, _)
Mutant_GuiContainer_handle_loop(t, n, k, msg, calls) ==
    IF k > Len(t[n].nodes) THEN [ret |-> FALSE, calls |-> calls]
    ELSE LET r == child_handle(t, t[n].nodes[k], msg, calls)
             rest == Mutant_GuiContainer_handle_loop(t, n, k + 1, msg, r.calls)
         IN  [ret |-> r.ret \/ rest.ret, calls |-> rest.calls]

\* the body of "for i in self.nodes" from child k on
GuiContainer_handle_loop(t, n, k, msg, calls) ==
    IF k > Len(t[n].nodes) THEN [ret |-> FALSE, calls |-> calls]
    ELSE LET r == child_handle(t, t[n].nodes[k], msg, calls)
         IN  IF r.ret THEN [ret |-> TRUE, calls |-> r.calls]
             ELSE GuiContainer_handle_loop(t, n, k + 1, msg, r.calls)

GuiContainer_handle(t, n, msg, calls) == GuiContainer_handle_loop(t, n, 1, msg, calls)

\* positional arguments GuiContainer.handle takes, and BorderWidget.handle passes
GuiContainer_handle_params == 1     \* nodes.py:114
BorderWidget_handle_args == 2       \* containers.py:73

\* BorderWidget.handle: [err, ret, calls]; ret is "True", "False" or "None"
BorderWidget_handle(t, w, msg) ==
    IF BorderWidget_handle_args # GuiContainer_handle_params
    THEN [err |-> "TypeError", ret |-> "None", calls |-> <<>>]
    ELSE [err |-> "none", ret |-> "None",
          calls |-> GuiContainer_handle(t, w.container, msg, <<>>).calls]

----------------------------------------------------------------------------
(* BorderWidget.  w = [built, container, image, rect, painted]; painted is *)
(* the set of areas the last update blitted into the widget's image.       *)

NoWidget == [built |-> FALSE, container |-> Root, image |-> NoImage,
             rect |-> Rect(0, 0, 0, 0), painted |-> {}]

\* add_border(base_image, border, ...): the contents framed on every side
add_border(base, deltax, deltay) ==
    Surface(get_width(base) + 2 * deltax, get_height(base) + 2 * deltay)

\* Resources.get_centre(width, height): the position centring it on the display
get_centre(width, height) ==
    <<(ScreenWidth - width) \div 2, (ScreenHeight - height) \div 2>>

\* ImageNode.update_position(x, y) of the contents
update_position(off, n, deltax, deltay) ==
    [off EXCEPT ![n] = <<deltax, deltay>>]

\* BorderWidget.update_widget_image(node, rects): [rects, painted]
RECURSIVE update_widget_image(_, _, _, _, _)
update_widget_image(off, node, rects, border_coords, painted) ==
    IF rects = <<>> THEN [rects |-> border_coords, painted |-> painted]
    ELSE LET dirty == Head(rects)
             tmp_rect == [dirty EXCEPT !.x = @ + off[node][1], !.y = @ + off[node][2]]
         IN  update_widget_image(off, node, Tail(rects),
                Append(border_coords, tmp_rect),
                painted \cup {[node |-> node, dest |-> tmp_rect, area |-> dirty]})

\* node.update(time_delta) of a leaf: None from GuiNode.update, the reported
\* rectangles from a widget that overrides it
leaf_update(t, node, reports) ==
    IF t[node].updates THEN [none |-> FALSE, rects |-> reports[node]]
    ELSE [none |-> TRUE, rects |-> <<>>]

\* BorderWidget.get_dirty_rects(parent, time_delta): [err, rects, painted]
RECURSIVE get_dirty_rects(_, _, _, _, _)
RECURSIVE get_dirty_rects_loop(_, _, _, _, _, _, _)

get_dirty_rects_loop(t, off, parent, k, reports, root, painted) ==
    IF k > Len(t[parent].nodes) THEN [err |-> "none", rects |-> root, painted |-> painted]
    ELSE LET r == get_dirty_rects(t, off, t[parent].nodes[k], reports, painted)
         IN  IF r.err # "none" THEN r
             ELSE get_dirty_rects_loop(t, off, parent, k + 1, reports,
                                       root \o r.rects, r.painted)

get_dirty_rects(t, off, parent, reports, painted) ==
    IF IsContainer(t, parent)
    THEN get_dirty_rects_loop(t, off, parent, 1, reports, <<>>, painted)
    ELSE LET rects == leaf_update(t, parent, reports)
         IN  IF rects.none
             THEN [err |-> "TypeError", rects |-> <<>>, painted |-> painted]
             ELSE [err |-> "none"] @@
                  update_widget_image(off, parent, rects.rects, <<>>, painted)

\* BorderWidget.update: the rectangles moved by the widget's screen position
to_screen(w, rects) ==
    [k \in 1..Len(rects) |->
        [rects[k] EXCEPT !.x = @ + w.rect.x, !.y = @ + w.rect.y]]

BorderWidget_update(t, off, w, reports) ==
    LET r == get_dirty_rects(t, off, w.container, reports, {})
    IN  IF r.err # "none" THEN r
        ELSE [r EXCEPT !.rects = to_screen(w, r.rects)]

----------------------------------------------------------------------------
(* Construction *)

MaxChildren == NumNodes - 1

\* what a constructor is given; size is the image (the rendered text of a label),
\* updates tells a widget whose class overrides update to report dirty rectangles
LeafNode(kind, size, border, align, updates) ==
    [kind |-> kind, nodes |-> <<>>, border |-> border, align |-> align,
     align_children |-> "NONE", fill |-> FALSE, size |-> size, updates |-> updates]

\* GuiContainer.__init__(nodes, background, border, align_children)
ContainerNode(kind, nodes, border, align_children) ==
    [kind |-> kind, nodes |-> nodes, border |-> border, align |-> "NONE",
     align_children |-> align_children, fill |-> TRUE, size |-> NoImage,
     updates |-> FALSE]

\* GuiLabel.__init__: the label's image, the text framed by the border
GuiLabel_image(size, border) ==
    IF border > 0
    THEN Surface(get_width(size) + (2 * border), get_height(size) + (2 * border))
    ELSE size

\* GuiLabel.__init__: the label's rect
GuiLabel_rect(size, border) == Rect(0, 0, get_width(size), get_height(size))

\* self.image after __init__
image_init(t, n) ==
    IF IsContainer(t, n) THEN NoImage
    ELSE IF t[n].kind = "GuiLabel" THEN GuiLabel_image(t[n].size, t[n].border)
    ELSE t[n].size

\* self.rect after __init__
rect_init(t, n) ==
    IF IsContainer(t, n) \/ t[n].size = NoImage THEN Rect(0, 0, 0, 0)
    ELSE IF t[n].kind = "GuiLabel" THEN GuiLabel_rect(t[n].size, t[n].border)
    ELSE Rect(0, 0, get_width(t[n].size), get_height(t[n].size))

\* self.visible after __init__
visible_init(t, n) == ~IsContainer(t, n)

RECURSIVE Subtree(_, _)
Subtree(t, n) ==
    {n} \cup UNION {Subtree(t, t[n].nodes[k]) : k \in 1..Len(t[n].nodes)}

Live == Subtree(tree, Root)
Leaves(t, n) == {i \in Subtree(t, n) : ~IsContainer(t, i)}

\* the sizes leaf images come in: the unit square, and every w x h with w + h = MaxDim + 1
Sizes == {Surface(1, 1)} \cup {Surface(w, MaxDim + 1 - w) : w \in 1..MaxDim}
Borders == 0..MaxBorder
Spare == LeafNode("GuiImage", Surface(1, 1), 0, "NONE", FALSE)

\* a container of c images of any sizes
TreesStack ==
    {[n \in Node |->
        IF n = Root THEN ContainerNode(kind, [k \in 1..c |-> k + 1], b, "CENTRE")
        ELSE IF n - 1 <= c THEN LeafNode("GuiImage", sz[n - 1], 0, "NONE", FALSE)
        ELSE Spare] :
     kind \in ContainerKinds, b \in Borders,
     c \in 0..MaxStack, sz \in [1..MaxStack -> Sizes]}

Large == Surface(MaxDim + 1, MaxDim + 1)

\* a container of a large image and a smaller one, every alignment
TreesAlign ==
    {[n \in Node |->
        IF n = Root THEN ContainerNode(kind, <<2, 3>>, b, ac)
        ELSE IF n = 2 THEN LeafNode("GuiImage", Large, 0, "NONE", FALSE)
        ELSE IF n = 3 THEN LeafNode("GuiImage", sz, 0, a, FALSE)
        ELSE Spare] :
     kind \in ContainerKinds, b \in Borders, sz \in Sizes,
     a \in {"NONE"} \cup HAligns \cup VAligns, ac \in HAligns \cup VAligns}

\* a container of one leaf of every class
TreesKinds ==
    {[n \in Node |->
        IF n = Root THEN ContainerNode(kind, <<2>>, b, "CENTRE")
        ELSE IF n = 2 THEN leaf
        ELSE Spare] :
     kind \in ContainerKinds, b \in Borders,
     leaf \in {LeafNode("GuiLabel", sz, lb, "NONE", FALSE) : sz \in Sizes, lb \in Borders}
         \cup {LeafNode("GuiNode", sz, 0, "NONE", FALSE) : sz \in Sizes \cup {NoImage}}}

\* a container of a container and an image
TreesNested ==
    {[n \in Node |->
        IF n = Root THEN ContainerNode(kind, <<2, 4>>, b, "CENTRE")
        ELSE IF n = 2 THEN ContainerNode(inner, <<3>>, ib, ac)
        ELSE IF n = 3 THEN LeafNode("GuiImage", sz, 0, "NONE", FALSE)
        ELSE IF n = 4 THEN LeafNode("GuiImage", sz4, 0, "NONE", FALSE)
        ELSE Spare] :
     kind \in ContainerKinds, inner \in ContainerKinds, b \in Borders, ib \in Borders,
     ac \in {"CENTRE", "TOP"}, sz \in Sizes, sz4 \in {Surface(1, 1), Large}}

\* the end-to-end scenario: images of 100x50 and 60x50, border 4
TreesScenario ==
    {[n \in Node |->
        IF n = Root THEN ContainerNode("VerticalContainer", <<2, 3>>, DefaultBorder, "CENTRE")
        ELSE IF n = 2 THEN LeafNode("GuiImage", Surface(100, 50), 0, "NONE", FALSE)
        ELSE IF n = 3 THEN LeafNode("GuiImage", Surface(60, 50), 0, "NONE", FALSE)
        ELSE Spare]}

\* a window's contents: c leaves, the first u of them widgets that override update
TreesFlat ==
    {[n \in Node |->
        IF n = Root THEN ContainerNode("VerticalContainer", [k \in 1..c |-> k + 1],
                                       MaxBorder, "CENTRE")
        ELSE IF n - 1 <= c THEN LeafNode("GuiImage", Large, 0, "NONE", n - 1 <= u)
        ELSE Spare] :
     c \in 1..MaxChildren, u \in 0..2}

\* a window's contents: a container inside the container
TreesDeep ==
    {[n \in Node |->
        IF n = Root THEN ContainerNode("HorizontalContainer", <<2, 4>>, MaxBorder, "CENTRE")
        ELSE IF n = 2 THEN ContainerNode("VerticalContainer", <<3>>, 0, ac)
        ELSE IF n = 3 THEN LeafNode("GuiImage", Large, 0, "NONE", u >= 1)
        ELSE IF n = 4 THEN LeafNode("GuiImage", Large, 0, "NONE", u >= 2)
        ELSE Spare] :
     ac \in {"CENTRE", "TOP"}, u \in 0..2}

Offsets == {<<0, 0>>} \cup {<<x, MaxOffset - x>> : x \in 0..MaxOffset}
NoOffsets == [n \in Node |-> <<0, 0>>]

\* the offsets the nodes of a window's contents may have been given
TreeOffsets(t) ==
    {[NoOffsets EXCEPT ![2] = o2, ![3] = o3] :
        o2 \in Offsets,
        o3 \in IF IsContainer(t, 2) THEN {<<0, 0>>, <<MaxOffset, MaxOffset>>} ELSE {<<0, 0>>}}

NoCall == [op |-> "none", node |-> 0, width |-> 0, height |-> 0, err |-> "none",
           value |-> <<>>, fill |-> FALSE, ret |-> "None", calls |-> <<>>,
           msg |-> {}, reports |-> <<>>, rects |-> <<>>]

Constructed(t, off) ==
    /\ tree = t
    /\ image = [n \in Node |-> image_init(t, n)]
    /\ rect = [n \in Node |-> rect_init(t, n)]
    /\ visible = [n \in Node |-> visible_init(t, n)]
    /\ offset = off
    /\ blitpos = [n \in Node |-> <<>>]
    /\ widget = NoWidget
    /\ last = NoCall

\* the window's contents, ready to be wrapped
Init ==
    \E t \in TreesFlat \cup TreesDeep : \E off \in TreeOffsets(t) : Constructed(t, off)

\* widget trees of every size, class and alignment
InitLayout ==
    \E t \in TreesStack \cup TreesAlign \cup TreesKinds \cup TreesNested \cup TreesScenario :
        Constructed(t, NoOffsets)

----------------------------------------------------------------------------
(* Operations *)

Fields == [image |-> image, rect |-> rect, visible |-> visible, blitpos |-> blitpos]

SetFields(st) ==
    /\ image' = st.image
    /\ rect' = st.rect
    /\ visible' = st.visible
    /\ blitpos' = st.blitpos

\* n.minimum_size
Call_minimum_size(n) ==
    LET r == minimum_size(tree, image, n)
    IN  /\ last' = [NoCall EXCEPT !.op = "minimum_size", !.node = n, !.err = r.err,
                       !.value = IF r.err = "none" THEN <<r.w, r.h>> ELSE <<>>,
                       !.fill = r.fill]
        /\ UNCHANGED <<tree, image, rect, visible, offset, blitpos, widget>>

\* n.build_image(width, height)
Call_build_image(n, width, height) ==
    LET r == build_image(tree, Fields, n, width, height)
    IN  /\ SetFields(r.st)
        /\ last' = [NoCall EXCEPT !.op = "build_image", !.node = n, !.width = width,
                       !.height = height, !.err = r.err, !.value = r.img]
        /\ UNCHANGED <<tree, offset, widget>>

\* the heights a caller may offer n: never less than n needs
Offers(n) ==
    LET m == minimum_size(tree, image, n)
    IN  IF m.err # "none" THEN {0} ELSE m.h..(m.h + MaxSlack)

\* the sizes a caller may offer n: its natural width (-1) with any height
\* offered, or a width and a height with room to spare
OfferedSizes(n) ==
    LET m == minimum_size(tree, image, n)
    IN  {<<-1, h>> : h \in Offers(n)}
        \cup (IF m.err # "none" THEN {} ELSE {<<m.w + MaxSlack, m.h + MaxSlack>>})

\* n.handle(message)
Call_handle(n, msg) ==
    LET r == GuiContainer_handle(tree, n, msg, <<>>)
    IN  /\ last' = [NoCall EXCEPT !.op = "handle", !.node = n, !.msg = msg,
                       !.ret = IF r.ret THEN "True" ELSE "False", !.calls = r.calls]
        /\ UNCHANGED <<tree, image, rect, visible, offset, blitpos, widget>>

\* Resources.configs.get('WindowBorder'): the frame's pieces
BorderConfigs ==
    {[border_size |-> MaxBorder, left |-> MaxBorder, top |-> 0]}

\* BorderWidget(contents, xpos, ypos), the border configuration being cfg
BorderWidget_init(xpos, ypos, cfg) ==
    LET r == build_image(tree, Fields, Root, 0, 0)
        deltax == cfg.left + cfg.border_size
        deltay == cfg.top + cfg.border_size
        img == add_border(r.st.image[Root], deltax, deltay)
        pos == IF xpos < 0 THEN get_centre(get_width(img), get_height(img))
               ELSE <<xpos, ypos>>
    IN  /\ ~widget.built
        /\ SetFields(r.st)
        /\ last' = [NoCall EXCEPT !.op = "BorderWidget", !.node = Root, !.err = r.err]
        /\ IF r.err # "none"
           THEN UNCHANGED <<offset, widget>>
           ELSE /\ offset' = update_position(offset, Root, deltax, deltay)
                /\ widget' = [built |-> TRUE, container |-> Root, image |-> img,
                              rect |-> Rect(pos[1], pos[2], get_width(img), get_height(img)),
                              painted |-> {}]
        /\ UNCHANGED tree

DirtyRects ==
    {Rect(x, MaxDirty - x, 1 + x, 1 + MaxDirty - x) : x \in 0..MaxDirty}

\* what the widgets that override update report this frame
Reports ==
    LET widgets == {n \in Live : tree[n].updates}
    IN  {[n \in Node |-> IF n \in widgets THEN f[n] ELSE <<>>] :
            f \in [widgets -> {<<>>} \cup {<<d>> : d \in DirtyRects}]}

\* widget.update(time_delta)
Call_update(reports) ==
    LET r == BorderWidget_update(tree, offset, widget, reports)
    IN  /\ widget.built
        /\ widget' = [widget EXCEPT !.painted = r.painted]
        /\ last' = [NoCall EXCEPT !.op = "update", !.err = r.err, !.reports = reports,
                       !.rects = IF r.err = "none" THEN r.rects ELSE <<>>]
        /\ UNCHANGED <<tree, image, rect, visible, offset, blitpos>>

\* widget.handle(message)
Call_widget_handle(msg) ==
    LET r == BorderWidget_handle(tree, widget, msg)
    IN  /\ widget.built
        /\ last' = [NoCall EXCEPT !.op = "widget_handle", !.msg = msg, !.err = r.err,
                       !.ret = r.ret, !.calls = r.calls]
        /\ UNCHANGED <<tree, image, rect, visible, offset, blitpos, widget>>

Do_minimum_size == \E n \in Live : Call_minimum_size(n)

Do_build_image ==
    \E n \in Live :
        \/ Call_build_image(n, 0, 0)
        \/ /\ IsContainer(tree, n)
           /\ \E size \in OfferedSizes(n) : Call_build_image(n, size[1], size[2])

Do_handle ==
    \E n \in Live : \E msg \in SUBSET Leaves(tree, n) :
        IsContainer(tree, n) /\ Call_handle(n, msg)

Do_BorderWidget ==
    \E xpos \in {-1, MaxPos} : \E cfg \in BorderConfigs : BorderWidget_init(xpos, xpos, cfg)

Do_update == \E reports \in Reports : Call_update(reports)

Do_widget_handle == \E msg \in {{}, Leaves(tree, Root)} : Call_widget_handle(msg)

NextWindow ==
    \/ Do_handle
    \/ Do_BorderWidget
    \/ Do_update
    \/ Do_widget_handle

NextLayout ==
    \/ Do_minimum_size
    \/ Do_build_image

\* a window and its contents: construction, input and the frames
Spec == Init /\ [][NextWindow]_vars

\* the layout calls on widget trees of every size, class and alignment
Layout == InitLayout /\ [][NextLayout]_vars

----------------------------------------------------------------------------
(* Properties *)

ChildrenOf(n) == {tree[n].nodes[k] : k \in 1..Len(tree[n].nodes)}
ChildSize(n, k) == minimum_size(tree, image, tree[n].nodes[k])
ChildrenSized(n) == \A k \in 1..Len(tree[n].nodes) : ChildSize(n, k).err = "none"

RECURSIVE HeightsTo(_, _)
HeightsTo(n, k) == IF k = 0 THEN 0 ELSE ChildSize(n, k).h + HeightsTo(n, k - 1)

\* width = max(w_i) + 2b and height = sum(h_i) + max(N-1, 0)*2b + 2b
IsVerticalSize(n, size) ==
    LET N == Len(tree[n].nodes)
        b == tree[n].border
    IN  /\ Len(size) = 2
        /\ \E k \in 1..N : size[1] = ChildSize(n, k).w + 2 * b
        /\ \A k \in 1..N : size[1] >= ChildSize(n, k).w + 2 * b
        /\ size[2] = HeightsTo(n, N) + (IF N >= 1 THEN N - 1 ELSE 0) * 2 * b + 2 * b

\* C1: minimum_size of a container with no children returns exactly
\* (2*border, 2*border, fill); it does not fail
C1_EmptyContainerSize ==
    (last.op = "minimum_size" /\ IsContainer(tree, last.node)
        /\ tree[last.node].nodes = <<>>)
    => /\ last.err = "none"
       /\ last.value = <<2 * tree[last.node].border, 2 * tree[last.node].border>>
       /\ last.fill = tree[last.node].fill

\* C2: minimum_size of a VerticalContainer of N >= 1 children is
\* (max(w_i) + 2b, sum(h_i) + max(N-1, 0)*2b + 2b), (108, 116) in the scenario,
\* and build_simple_image makes an image of exactly that size
C2_VerticalMinimumSize ==
    LET n == last.node
    IN  /\ (last.op = "minimum_size" /\ tree[n].kind = "VerticalContainer"
               /\ Len(tree[n].nodes) >= 1 /\ ChildrenSized(n))
           => (last.err = "none" /\ IsVerticalSize(n, last.value))
        /\ (last.op = "build_image" /\ last.width = 0
               /\ tree[n].kind = "VerticalContainer"
               /\ Len(tree[n].nodes) >= 1 /\ ChildrenSized(n))
           => (last.err = "none" /\ IsVerticalSize(n, last.value)
                 /\ image[n] = last.value)
        /\ (last.op = "minimum_size" /\ n = Root /\ tree \in TreesScenario)
           => last.value = <<108, 116>>

C2_Witness ==
    /\ last.op = "build_image" /\ last.node = Root /\ last.width = 0
    /\ tree \in TreesScenario
    /\ image[Root] = <<108, 116>>

\* C3: after build_image the node's rect has the width and height of its image
C3_RectMatchesImage ==
    (last.op = "build_image" /\ last.err = "none")
    => /\ image[last.node] # NoImage
       /\ rect[last.node].w = get_width(image[last.node])
       /\ rect[last.node].h = get_height(image[last.node])

\* does child i report the message consumed?
Consumes(i, msg) == Leaves(tree, i) \cap msg # {}

\* the children of n among the calls, in the order of the calls
DirectCalls(n, calls) ==
    LET IsChild(x) == x \in ChildrenOf(n)
    IN  SelectSeq(calls, IsChild)

\* C4: handle invokes the children in list order up to and including the first
\* that consumes the message and returns True; with no consumer it invokes every
\* child once and returns False
C4_HandleShortCircuits ==
    last.op = "handle" =>
        LET n == last.node
            ch == tree[n].nodes
            consumers == {k \in 1..Len(ch) : Consumes(ch[k], last.msg)}
            first == CHOOSE k \in consumers : \A j \in consumers : k <= j
        IN  IF consumers = {}
            THEN last.ret = "False" /\ DirectCalls(n, last.calls) = ch
            ELSE last.ret = "True" /\ DirectCalls(n, last.calls) = SubSeq(ch, 1, first)

C4_Witness ==
    /\ last.op = "handle" /\ last.node = Root
    /\ tree[Root].nodes = <<2, 3, 4>>
    /\ last.msg = {3, 4}
    /\ last.calls = <<2, 3>>
    /\ last.ret = "True"

\* the containers around node i, the outermost first
RECURSIVE PathTo(_, _)
PathTo(n, i) ==
    IF n = i THEN <<>>
    ELSE LET k == CHOOSE k \in 1..Len(tree[n].nodes) : i \in Subtree(tree, tree[n].nodes[k])
         IN  <<n>> \o PathTo(tree[n].nodes[k], i)

RECURSIVE SumX(_)
SumX(ns) == IF ns = <<>> THEN 0 ELSE offset[Head(ns)][1] + SumX(Tail(ns))
RECURSIVE SumY(_)
SumY(ns) == IF ns = <<>> THEN 0 ELSE offset[Head(ns)][2] + SumY(Tail(ns))

\* the leaves under n, in the order of the tree
RECURSIVE LeafOrder(_)
RECURSIVE LeafOrderFrom(_, _)
LeafOrderFrom(n, k) ==
    IF k > Len(tree[n].nodes) THEN <<>>
    ELSE LeafOrder(tree[n].nodes[k]) \o LeafOrderFrom(n, k + 1)
LeafOrder(n) == IF IsContainer(tree, n) THEN LeafOrderFrom(n, 1) ELSE <<n>>

\* a leaf's rectangles moved by its own offset, by the offset of every container
\* around it, and by the widget's screen position
Surfaced(i, rects) ==
    LET levels == Append(PathTo(Root, i), i)
    IN  [k \in 1..Len(rects) |->
            [rects[k] EXCEPT !.x = @ + SumX(levels) + widget.rect.x,
                             !.y = @ + SumY(levels) + widget.rect.y]]

RECURSIVE SurfacedAll(_, _)
SurfacedAll(ls, reports) ==
    IF ls = <<>> THEN <<>>
    ELSE Surfaced(Head(ls), reports[Head(ls)]) \o SurfacedAll(Tail(ls), reports)

\* C5: update returns every reported rectangle translated by the offset at each
\* nesting level and by the widget's screen position, width and height as reported
C5_DirtyRectsTranslated ==
    (last.op = "update" /\ last.err = "none")
    => last.rects = SurfacedAll(LeafOrder(Root), last.reports)

\* C6: VerticalContainer.build_simple_image blits a child narrower than the
\* content width W at border + (W - w) \div 2 when its effective alignment is
\* CENTRE, at border when LEFT, at border + (W - w) when RIGHT, the effective
\* alignment being the child's own unless NONE, else align_children; a child as
\* wide as W goes at border
C6_VerticalAlignment ==
    (last.op = "build_image" /\ last.width = 0 /\ last.err = "none"
        /\ tree[last.node].kind = "VerticalContainer")
    => LET n == last.node
           b == tree[n].border
           W == minimum_size(tree, image, n).w - 2 * b
       IN  \A k \in 1..Len(tree[n].nodes) :
              LET i == tree[n].nodes[k]
                  w == ChildSize(n, k).w
                  eff == IF tree[i].align = "NONE" THEN tree[n].align_children
                         ELSE tree[i].align
                  x == blitpos[i][1]
              IN  /\ blitpos[i] # <<>>
                  /\ w = W => x = b
                  /\ (w < W /\ eff = "CENTRE") => x = b + ((W - w) \div 2)
                  /\ (w < W /\ eff = "LEFT") => x = b
                  /\ (w < W /\ eff = "RIGHT") => x = b + (W - w)

C6_Witness ==
    /\ last.op = "build_image" /\ last.node = Root /\ last.width = 0
    /\ last.err = "none"
    /\ tree[Root].kind = "VerticalContainer"
    /\ tree[Root].nodes = <<2, 3>>
    /\ tree[Root].align_children = "LEFT"
    /\ tree[3].align = "CENTRE"
    /\ get_width(image[2]) - get_width(image[3]) = 2
    /\ blitpos[3][1] = tree[Root].border + 1

\* C7: update on a tree whose leaves all have the default update returns an
\* empty list without raising and blits nothing into the widget's image
C7_QuietFrame ==
    (last.op = "update" /\ \A i \in Leaves(tree, Root) : ~tree[i].updates)
    => /\ last.err = "none"
       /\ last.rects = <<>>
       /\ widget.painted = {}

\* C8: the widget's handle passes the message on to its container, which accepts
\* the call, and returns True exactly when a child consumed the message
C8_WidgetHandle ==
    last.op = "widget_handle"
    => /\ last.err = "none"
       /\ last.ret = (IF Consumes(Root, last.msg) THEN "True" ELSE "False")

\* C9: a container is visible if and only if its image has been built
C9_VisibleIffBuilt ==
    \A n \in Live : IsContainer(tree, n) => (visible[n] <=> image[n] # NoImage)

\* C10: VerticalContainer.build_image with an explicit size always yields an
\* image: the requested size when the children leave slack and align_children is
\* TOP, the simple image otherwise; a HorizontalContainer builds an un-built
\* VerticalContainer child
C10_FullImageAlwaysBuilt ==
    LET n == last.node
    IN  /\ (last.op = "build_image" /\ last.width # 0
               /\ tree[n].kind = "VerticalContainer"
               /\ Len(tree[n].nodes) >= 1 /\ ChildrenSized(n))
           => /\ last.err = "none"
              /\ IF HeightsTo(n, Len(tree[n].nodes)) < last.height
                    /\ tree[n].align_children = "TOP"
                 THEN last.value = <<IF last.width = -1 THEN minimum_size(tree, image, n).w
                                       ELSE last.width, last.height>>
                 ELSE IsVerticalSize(n, last.value)
        /\ (last.op = "build_image" /\ last.width = 0
               /\ tree[n].kind = "HorizontalContainer"
               /\ \A i \in ChildrenOf(n) :
                     \/ (tree[i].kind = "VerticalContainer" /\ ChildrenSized(i))
                     \/ (~IsContainer(tree, i) /\ image[i] # NoImage))
           => last.err = "none"

====
